---- MODULE Spec2Model ----
(***************************************************************************)
(* Model of the wallet's ledger library (src/unnamed/part_001): coin       *)
(* selection (selectUtxos), transaction assembly (createTransaction), the  *)
(* sorted UTXO list produced by fetchAddressDetails, and the memoised      *)
(* device transport (transportState, initTransport) as it is driven by     *)
(* getAppData (src/unnamed/part_000).                                      *)
(*                                                                         *)
(* Amounts are SOMPI, modelled as integers.  On integers                   *)
(* Number(x.toFixed(8)) and Math.round(x) return x unchanged; both         *)
(* conversions are kept as named operators.                                *)
(***************************************************************************)
EXTENDS Integers, Sequences, FiniteSets, TLC

(***************************************************************************)
(* Bounds of the model and the input values that are enumerated.           *)
(***************************************************************************)
MaxUtxos == 3

\* utxo.amount values returned by the API.  With the fee of one input
\* (2047): 3047 = 1000 + fee, 22047 = 20000 + fee (exact matches),
\* 32046 and 32047 leave a change of 9999 and 10000 on a 20000 payment.
UtxoAmounts == {500, 1000, 3047, 22047, 32046, 32047}

\* amount values passed to selectUtxos / createTransaction.
TargetAmounts == {0, 500, 1000, 20000}

(***************************************************************************)
(* Program constants.                                                      *)
(***************************************************************************)
BaseEnvelopeMass == 239
BaseOutputMass == 690
PerInputMass == 1118
DustThreshold == 10000

\* initTransport calls made in a run, and the call sites that make them
MaxCalls == 4
NumCallers == 3

VARIABLES
    utxos,          \* the account's utxos as returned by fetchAddressDetails
    last,           \* the last completed library call: its arguments and result
    transportState, \* the module-level transportState object
    promises,       \* promises[p]: state of the p-th TransportWebHID.create()
    callers,        \* each initTransport caller: its position and result
    ncalls          \* number of initTransport calls made

txVars == <<utxos, last>>

transportVars == <<transportState, promises, callers, ncalls>>

vars == <<utxos, last, transportState, promises, callers, ncalls>>

(***************************************************************************)
(* fetchAddressDetails: the utxo list, sorted by decreasing amount.        *)
(***************************************************************************)
UtxoInfo(a) == [amount |-> a]

RECURSIVE InsertDesc(_, _)
InsertDesc(sorted, u) ==
    IF sorted = <<>> THEN <<u>>
    ELSE IF Head(sorted).amount - u.amount >= 0
         THEN <<Head(sorted)>> \o InsertDesc(Tail(sorted), u)
         ELSE <<u>> \o sorted

\* Array.prototype.sort((a, b) => b.amount - a.amount): a stable sort.
RECURSIVE SortDesc(_)
SortDesc(s) ==
    IF s = <<>> THEN <<>>
    ELSE InsertDesc(SortDesc(SubSeq(s, 1, Len(s) - 1)), s[Len(s)])

RawUtxoData ==
    UNION {[1..n -> UtxoAmounts] : n \in 0..MaxUtxos}

FetchedUtxos(utxoData) ==
    SortDesc([i \in 1..Len(utxoData) |-> UtxoInfo(utxoData[i])])

(***************************************************************************)
(* selectUtxos                                                             *)
(***************************************************************************)
TargetAmount(amount, fee, feeIncluded) ==
    IF feeIncluded THEN amount - fee ELSE amount

\* mutant: stops on any overshoot, without asking for a second utxo
HaveEnoughToStop_AnyLength(total, totalSpend, selectedLength) ==
    total = totalSpend \/ total > totalSpend

\* the break condition of the selection loop
HaveEnoughToStop(total, totalSpend, selectedLength) ==
    total = totalSpend \/ (total > totalSpend /\ selectedLength > 1)

\* mutant: an exact cover is reported as not enough
HasEnough_Strict(total, targetAmount, fee) == total > targetAmount + fee

HasEnough(total, targetAmount, fee) == total >= targetAmount + fee

\* The for-of loop, entered at candidate i with the loop's locals.
RECURSIVE SelectLoop(_, _, _, _, _, _, _)
SelectLoop(amount, utxosInput, feeIncluded, i, fee0, total0, selected0) ==
    IF i > Len(utxosInput)
    THEN [fee |-> fee0, total |-> total0, selected |-> selected0]
    ELSE LET utxo == utxosInput[i]
             fee == fee0 + PerInputMass
             total == total0 + utxo.amount
             selected == Append(selected0, utxo)
             targetAmount == TargetAmount(amount, fee, feeIncluded)
             totalSpend == targetAmount + fee
         IN  IF HaveEnoughToStop(total, totalSpend, Len(selected))
             THEN [fee |-> fee, total |-> total, selected |-> selected]
             ELSE SelectLoop(amount, utxosInput, feeIncluded, i + 1,
                             fee, total, selected)

\* mutant: the fee starts from the envelope mass alone
selectUtxos_NoOutputMass(amount, utxosInput, feeIncluded) ==
    LET end == SelectLoop(amount, utxosInput, feeIncluded, 1,
                          BaseEnvelopeMass, 0, <<>>)
        targetAmount == TargetAmount(amount, end.fee, feeIncluded)
    IN  [hasEnough |-> HasEnough(end.total, targetAmount, end.fee),
         utxos |-> end.selected,
         fee |-> end.fee,
         total |-> end.total]

selectUtxos(amount, utxosInput, feeIncluded) ==
    LET end == SelectLoop(amount, utxosInput, feeIncluded, 1,
                          BaseEnvelopeMass + BaseOutputMass, 0, <<>>)
        targetAmount == TargetAmount(amount, end.fee, feeIncluded)
    IN  [hasEnough |-> HasEnough(end.total, targetAmount, end.fee),
         utxos |-> end.selected,
         fee |-> end.fee,
         total |-> end.total]

(***************************************************************************)
(* createTransaction                                                       *)
(***************************************************************************)
\* Number(x.toFixed(8)) on an integer number of SOMPI
ToFixed8(x) == x

\* Math.round(x) on an integer number of SOMPI
Round(x) == x

TransactionInput(utxo) == [value |-> utxo.amount]

TransactionOutput(value, address) == [value |-> value, scriptPublicKey |-> address]

\* mutant: the fee is not taken out of an amount that includes it
PrimaryOutputValue_FeeNotDeducted(amount, fee, feeIncluded) == amount

PrimaryOutputValue(amount, fee, feeIncluded) ==
    IF feeIncluded THEN ToFixed8(amount - fee) ELSE amount

\* mutant: a change of exactly the threshold is treated as dust
HasChangeOutput_Strict(changeAmount) == changeAmount > DustThreshold

HasChangeOutput(changeAmount) == changeAmount >= DustThreshold

\* mutant: the hasEnough check is skipped
InsufficientFunds_Unchecked(hasEnough) == FALSE

InsufficientFunds(hasEnough) == ~hasEnough

createTransaction(amount, utxosInput, feeIncluded) ==
    LET sel == selectUtxos(amount, utxosInput, feeIncluded)
    IN  IF InsufficientFunds(sel.hasEnough)
        THEN [threw |-> TRUE, error |-> "Amount too high."]
        ELSE LET inputs == [i \in 1..Len(sel.utxos) |-> TransactionInput(sel.utxos[i])]
                 targetAmount == PrimaryOutputValue(amount, sel.fee, feeIncluded)
                 sendToOutput == TransactionOutput(targetAmount, "sendTo")
                 changeAmount == sel.total - targetAmount - sel.fee
                 outputs ==
                     IF HasChangeOutput(changeAmount)
                     THEN <<sendToOutput,
                            TransactionOutput(Round(changeAmount), "changeAddress")>>
                     ELSE <<sendToOutput>>
             IN  [threw |-> FALSE,
                  tx |-> [version |-> 0, inputs |-> inputs, outputs |-> outputs],
                  fee |-> sel.fee]

(***************************************************************************)
(* The library calls as actions.                                           *)
(***************************************************************************)
TxInit ==
    /\ utxos = <<>>
    /\ last = [op |-> "none"]

(***************************************************************************)
(* transportState and initTransport.  null is 0; the handle that the p-th  *)
(* create() resolves to is p.                                              *)
(***************************************************************************)
Callers == 1..NumCallers

DeviceTypes == {"usb", "bluetooth"}

\* early: the call was made before the first create() settled
IdleCaller == [pc |-> "idle", type |-> "none", awaiting |-> 0, result |-> 0,
               early |-> FALSE]

TransportInit ==
    /\ transportState = [transport |-> 0, initPromise |-> 0, type |-> "null"]
    /\ promises = <<>>
    /\ callers = [c \in Callers |-> IdleCaller]
    /\ ncalls = 0

\* if (transportState.type == type && transportState.transport)
Memoized(state, type) == state.type = type /\ state.transport # 0

\* mutant: an acquisition in flight is not noticed
AcquisitionStarted_Unchecked(state) == FALSE

\* if (transportState.initPromise)
AcquisitionStarted(state) == state.initPromise # 0

\* initTransport(type), up to its return or its first await
InitTransportCall(c, type) ==
    /\ callers[c].pc \in {"idle", "returned", "threw"}
    /\ ncalls < MaxCalls
    /\ ncalls' = ncalls + 1
    /\ LET early == promises = <<>> \/ promises[1] = "pending"
       IN
       IF Memoized(transportState, type)
       THEN /\ callers' = [callers EXCEPT ![c] =
                    [pc |-> "returned", type |-> type, awaiting |-> 0,
                     result |-> transportState.transport,
                     early |-> early]]
            /\ UNCHANGED <<transportState, promises>>
       ELSE IF AcquisitionStarted(transportState)
       THEN /\ callers' = [callers EXCEPT ![c] =
                    [pc |-> "awaitShared", type |-> type,
                     awaiting |-> transportState.initPromise, result |-> 0,
                     early |-> early]]
            /\ UNCHANGED <<transportState, promises>>
       ELSE /\ promises' = Append(promises, "pending")
            /\ transportState' =
                    [transportState EXCEPT !.initPromise = Len(promises) + 1]
            /\ callers' = [callers EXCEPT ![c] =
                    [pc |-> "awaitOwn", type |-> type,
                     awaiting |-> Len(promises) + 1, result |-> 0,
                     early |-> early]]
    /\ UNCHANGED txVars

\* TransportWebHID.create() settles: a device is opened, or the open fails
CreateSettles(p, outcome) ==
    /\ promises[p] = "pending"
    /\ promises' = [promises EXCEPT ![p] = outcome]
    /\ UNCHANGED <<transportState, callers, ncalls, utxos, last>>

\* transportState.transport = await transportState.initPromise; ... return
ResumeOwn(c) ==
    /\ callers[c].pc = "awaitOwn"
    /\ promises[callers[c].awaiting] # "pending"
    /\ IF promises[callers[c].awaiting] = "resolved"
       THEN /\ transportState' =
                    [transportState EXCEPT !.transport = callers[c].awaiting,
                                           !.type = callers[c].type]
            /\ callers' = [callers EXCEPT ![c].pc = "returned",
                                          ![c].result = callers[c].awaiting]
       ELSE /\ callers' = [callers EXCEPT ![c].pc = "threw"]
            /\ UNCHANGED transportState
    /\ UNCHANGED <<promises, ncalls, utxos, last>>

\* return await transportState.initPromise
ResumeShared(c) ==
    /\ callers[c].pc = "awaitShared"
    /\ promises[callers[c].awaiting] # "pending"
    /\ IF promises[callers[c].awaiting] = "resolved"
       THEN callers' = [callers EXCEPT ![c].pc = "returned",
                                      ![c].result = callers[c].awaiting]
       ELSE callers' = [callers EXCEPT ![c].pc = "threw"]
    /\ UNCHANGED <<transportState, promises, ncalls, utxos, last>>

Init == TxInit /\ TransportInit

FetchAddressDetails ==
    \E utxoData \in RawUtxoData :
        /\ utxos' = FetchedUtxos(utxoData)
        /\ last' = [op |-> "fetchAddressDetails"]
        /\ UNCHANGED transportVars

SelectUtxos ==
    \E amount \in TargetAmounts, feeIncluded \in BOOLEAN :
        /\ last' = [op |-> "selectUtxos", amount |-> amount, utxosInput |-> utxos,
                    feeIncluded |-> feeIncluded,
                    ret |-> selectUtxos(amount, utxos, feeIncluded)]
        /\ UNCHANGED <<utxos, transportState, promises, callers, ncalls>>

CreateTransaction ==
    \E amount \in TargetAmounts, feeIncluded \in BOOLEAN :
        /\ last' = [op |-> "createTransaction", amount |-> amount, utxosInput |-> utxos,
                    feeIncluded |-> feeIncluded,
                    ret |-> createTransaction(amount, utxos, feeIncluded)]
        /\ UNCHANGED <<utxos, transportState, promises, callers, ncalls>>

TxNext == FetchAddressDetails \/ SelectUtxos \/ CreateTransaction

TxSpec == Init /\ [][TxNext]_vars

TransportNext ==
    \/ \E c \in Callers, type \in DeviceTypes : InitTransportCall(c, type)
    \/ \E p \in 1..Len(promises), outcome \in {"resolved", "rejected"} :
            CreateSettles(p, outcome)
    \/ \E c \in Callers : ResumeOwn(c)
    \/ \E c \in Callers : ResumeShared(c)

TransportSpec == Init /\ [][TransportNext]_vars

(***************************************************************************)
(* Helpers of the properties.                                              *)
(***************************************************************************)
RECURSIVE SumAmounts(_)
SumAmounts(s) == IF s = <<>> THEN 0 ELSE Head(s).amount + SumAmounts(Tail(s))

RECURSIVE SumValues(_)
SumValues(s) == IF s = <<>> THEN 0 ELSE Head(s).value + SumValues(Tail(s))

IsSortedDesc(s) == \A i \in 1..(Len(s) - 1) : s[i].amount >= s[i + 1].amount

Selected == last.op = "selectUtxos"

Built == last.op = "createTransaction" /\ ~last.ret.threw

\* total, fee and stop test of the prefix of length k, in closed form
PrefixTotal(k) == SumAmounts(SubSeq(last.utxosInput, 1, k))
PrefixFee(k) == 239 + 690 + 1118 * k
PrefixSpend(k) ==
    IF last.feeIncluded THEN (last.amount - PrefixFee(k)) + PrefixFee(k)
    ELSE last.amount + PrefixFee(k)
PrefixStops(k) ==
    \/ PrefixTotal(k) = PrefixSpend(k)
    \/ PrefixTotal(k) > PrefixSpend(k) /\ k >= 2
StoppingPrefixes == {k \in 1..Len(last.utxosInput) : PrefixStops(k)}
ExpectedLength ==
    IF StoppingPrefixes = {} THEN Len(last.utxosInput)
    ELSE CHOOSE k \in StoppingPrefixes : \A j \in StoppingPrefixes : k <= j

\* the change of a built transaction, from its inputs, primary output and fee
BuiltChange ==
    SumValues(last.ret.tx.inputs) - last.ret.tx.outputs[1].value - last.ret.fee

EffectiveFee == SumValues(last.ret.tx.inputs) - SumValues(last.ret.tx.outputs)

(***************************************************************************)
(* C2 (as stated): on a list sorted by descending amount, a target amount  *)
(* of at most the sum of all candidate amounts gives hasEnough = TRUE,     *)
(* for either value of feeIncluded.                                        *)
(***************************************************************************)
C2_TargetWithinSumHasEnough ==
    (Selected /\ IsSortedDesc(last.utxosInput)
        /\ last.amount <= SumAmounts(last.utxosInput))
    => last.ret.hasEnough

(***************************************************************************)
(* C2 (amended): on a list sorted by descending amount selectUtxos returns *)
(* hasEnough = TRUE when feeIncluded is true and the target is at most the *)
(* sum of all candidate amounts, and when feeIncluded is false and the     *)
(* target plus the fee of selecting all n candidates (929 + 1118*n) is at  *)
(* most that sum.                                                          *)
(***************************************************************************)
C2_TargetPlusFeeWithinSumHasEnough ==
    (Selected /\ IsSortedDesc(last.utxosInput))
    => /\ (last.feeIncluded /\ last.amount <= SumAmounts(last.utxosInput))
            => last.ret.hasEnough
       /\ (~last.feeIncluded
            /\ last.amount + 929 + 1118 * Len(last.utxosInput)
                  <= SumAmounts(last.utxosInput))
            => last.ret.hasEnough

C2_Witness ==
    /\ Selected
    /\ ~last.feeIncluded
    /\ Len(last.utxosInput) >= 2
    /\ last.amount > 0
    /\ last.amount + 929 + 1118 * Len(last.utxosInput) <= SumAmounts(last.utxosInput)
    /\ last.ret.hasEnough

(***************************************************************************)
(* C3, dust law: a built transaction whose change (total selected minus    *)
(* primary output minus fee) is in 0..9999 has exactly one output; with a  *)
(* change of 10000 or more it has exactly two, the second paying           *)
(* round(change) to changeAddress.                                         *)
(***************************************************************************)
C3_DustLaw ==
    Built =>
        /\ (BuiltChange >= 0 /\ BuiltChange <= 9999)
              => Len(last.ret.tx.outputs) = 1
        /\ BuiltChange >= 10000
              => /\ Len(last.ret.tx.outputs) = 2
                 /\ last.ret.tx.outputs[2].value = BuiltChange
                 /\ last.ret.tx.outputs[2].scriptPublicKey = "changeAddress"

C3_Witness ==
    /\ Built
    /\ BuiltChange = 10000
    /\ Len(last.ret.tx.outputs) = 2

(***************************************************************************)
(* C4: createTransaction throws, and returns no transaction, exactly when  *)
(* selectUtxos on the same amount, candidates and feeIncluded reports      *)
(* hasEnough = FALSE.                                                      *)
(***************************************************************************)
C4_ThrowsIffNotEnough ==
    last.op = "createTransaction" =>
        LET sel == selectUtxos(last.amount, last.utxosInput, last.feeIncluded)
        IN  /\ last.ret.threw <=> ~sel.hasEnough
            /\ last.ret.threw => "tx" \notin DOMAIN last.ret
            /\ ~last.ret.threw => "tx" \in DOMAIN last.ret

C4_Witness ==
    /\ last.op = "createTransaction"
    /\ last.ret.threw
    /\ last.utxosInput # <<>>
    /\ ~selectUtxos(last.amount, last.utxosInput, last.feeIncluded).hasEnough

(***************************************************************************)
(* C5: the fee selectUtxos returns is 239 + 690 + 1118*k for k selected    *)
(* utxos.                                                                  *)
(***************************************************************************)
C5_FeeLinearInSelected ==
    Selected => last.ret.fee = 239 + 690 + 1118 * Len(last.ret.utxos)

C5_Witness ==
    /\ Selected
    /\ Len(last.ret.utxos) = 2
    /\ Len(last.utxosInput) = 3
    /\ last.ret.fee = 3165

(***************************************************************************)
(* C6 (as stated): on an empty candidate list selectUtxos returns          *)
(* hasEnough = FALSE, an empty selection and the base fee 929, for every   *)
(* target amount and either value of feeIncluded.                          *)
(***************************************************************************)
C6_EmptyListNotEnough ==
    (Selected /\ last.utxosInput = <<>>)
    => /\ ~last.ret.hasEnough
       /\ last.ret.utxos = <<>>
       /\ last.ret.fee = 929

(***************************************************************************)
(* C7: selectUtxos returns the shortest prefix of the candidates at which  *)
(* the total equals target + fee, or exceeds it with at least two          *)
(* selected, and the whole list when there is none; a first candidate      *)
(* equal to target + fee is selected alone, and a first candidate that     *)
(* overshoots is followed by the second one when there is one.             *)
(***************************************************************************)
C7_ShortestStoppingPrefix ==
    Selected =>
        /\ last.ret.utxos = SubSeq(last.utxosInput, 1, ExpectedLength)
        /\ (Len(last.utxosInput) >= 1 /\ PrefixTotal(1) = PrefixSpend(1))
              => Len(last.ret.utxos) = 1
        /\ (Len(last.utxosInput) >= 2 /\ PrefixTotal(1) > PrefixSpend(1))
              => Len(last.ret.utxos) >= 2

C7_Witness ==
    /\ Selected
    /\ Len(last.utxosInput) = 3
    /\ PrefixTotal(1) > PrefixSpend(1)
    /\ Len(last.ret.utxos) = 2

(***************************************************************************)
(* C9 (as stated): every transaction createTransaction returns has at      *)
(* least one input and a strictly positive primary output.                 *)
(***************************************************************************)
C9_InputsAndPositiveOutput ==
    Built =>
        /\ Len(last.ret.tx.inputs) >= 1
        /\ last.ret.tx.outputs[1].value > 0

(***************************************************************************)
(* C10, value conservation: in a built transaction the effective fee (sum  *)
(* of the input values minus sum of the output values) is at least the     *)
(* returned fee and less than the returned fee plus 10000.                 *)
(***************************************************************************)
C10_EffectiveFeeBounds ==
    Built =>
        /\ EffectiveFee >= last.ret.fee
        /\ EffectiveFee < last.ret.fee + 10000

C10_Witness ==
    /\ Built
    /\ Len(last.ret.tx.outputs) = 1
    /\ EffectiveFee = last.ret.fee + 9999

(***************************************************************************)
(* C1: when initTransport callers of the same kind all start before the    *)
(* first TransportWebHID.create() settles, create() is invoked exactly     *)
(* once and every caller that returns receives the same handle.            *)
(***************************************************************************)
EarlyCallers == {c \in Callers : callers[c].pc # "idle" /\ callers[c].early}

C1_OneCreateOneHandle ==
    /\ ncalls >= 1 => Len(promises) = 1
    /\ \A c1, c2 \in EarlyCallers :
          (/\ callers[c1].type = callers[c2].type
           /\ callers[c1].pc = "returned"
           /\ callers[c2].pc = "returned")
          => /\ callers[c1].result = callers[c2].result
             /\ callers[c1].result # 0

C1_Witness ==
    \E c1, c2 \in EarlyCallers :
        /\ c1 # c2
        /\ callers[c1].type = callers[c2].type
        /\ callers[c1].pc = "returned"
        /\ callers[c2].pc = "returned"
        /\ callers[c1].result = callers[c2].result
        /\ Len(promises) = 1

(***************************************************************************)
(* C8 (as stated): once an initTransport call has failed because create()  *)
(* rejected, a later initTransport call starts a new create() attempt.     *)
(***************************************************************************)
C8_CallAfterFailureCreatesAgain ==
    [][(/\ \E c \in Callers : callers[c].pc = "threw"
        /\ transportState.initPromise # 0
        /\ promises[transportState.initPromise] = "rejected"
        /\ ncalls' = ncalls + 1)
       => Len(promises') = Len(promises) + 1]_vars

====
